---------------------------- MODULE Spec2Model ----------------------------
(***************************************************************************)
(* Model of the DCF valuation engine (src/dcf_calculator.py) and of the    *)
(* two front-ends that drive it (src/main.py, src/unnamed/part_000).       *)
(*                                                                         *)
(* Numbers.  The program computes with binary64 floats.  The model keeps   *)
(* the shape of floating point (a signed mantissa of bounded width, an     *)
(* exponent, rounding to nearest-even after every operation, the special   *)
(* values inf and nan) with a decimal mantissa of Precision digits.  A     *)
(* finite number is [k |-> "fin", m |-> mantissa, e |-> exponent], its     *)
(* value m * 10^e, kept canonical (no trailing zero in m, zero is m=0,e=0) *)
(* so that equal values are equal records.                                 *)
(***************************************************************************)
EXTENDS Integers, Sequences, FiniteSets, TLC

\* Significant decimal digits of the model's floats.
Precision == 3

\* Longest text cell enumerated for clean_and_convert.
MaxStrLen == 4

----------------------------------------------------------------------------
\* Floating point

RECURSIVE Pow10(_)
Pow10(k) == IF k <= 0 THEN 1 ELSE 10 * Pow10(k - 1)

Abs(n) == IF n < 0 THEN -n ELSE n

Sign(n) == IF n < 0 THEN -1 ELSE IF n > 0 THEN 1 ELSE 0

RECURSIVE NumDigits(_)
NumDigits(n) == IF n < 10 THEN 1 ELSE 1 + NumDigits(n \div 10)

RECURSIVE StripZeros(_, _)
StripZeros(m, e) ==
    IF m = 0 THEN [k |-> "fin", m |-> 0, e |-> 0]
    ELSE IF m % 10 = 0 THEN StripZeros(m \div 10, e + 1)
    ELSE [k |-> "fin", m |-> m, e |-> e]

\* Round the magnitude a to Precision digits, ties to even, as binary64
\* rounds every result; d is the number of digits dropped.
RoundMag(a) ==
    LET d == NumDigits(a) - Precision
    IN  IF d <= 0 THEN [q |-> a, d |-> 0]
        ELSE LET p   == Pow10(d)
                 q   == a \div p
                 r   == a % p
                 up  == (2 * r > p) \/ (2 * r = p /\ q % 2 = 1)
             IN  [q |-> IF up THEN q + 1 ELSE q, d |-> d]

Norm(m, e) ==
    LET r == RoundMag(Abs(m))
    IN  StripZeros(Sign(m) * r.q, e + r.d)

Fin(m, e) == Norm(m, e)
Zero == [k |-> "fin", m |-> 0, e |-> 0]
One == [k |-> "fin", m |-> 1, e |-> 0]
NaN == [k |-> "nan", m |-> 0, e |-> 0]
Inf(s) == [k |-> "inf", m |-> s, e |-> 0]

\* float(n) of a small Python int
FromInt(n) == Norm(n, 0)

IsFin(a) == a.k = "fin"
IsNaN(a) == a.k = "nan"
IsInf(a) == a.k = "inf"

\* Position of the leading digit of a finite non-zero number.
Top(a) == a.e + NumDigits(Abs(a.m))

\* The mantissa of a at exponent w (digits below w are truncated: they lie
\* more than Precision places under the leading digit of the result).
Scaled(a, w) ==
    IF a.m = 0 THEN 0
    ELSE IF a.e >= w THEN a.m * Pow10(a.e - w)
    ELSE Sign(a.m) * (Abs(a.m) \div Pow10(w - a.e))

GuardDigits == Precision + 4

FinAdd(a, b) ==
    IF a.m = 0 THEN b
    ELSE IF b.m = 0 THEN a
    ELSE LET t == IF Top(a) > Top(b) THEN Top(a) ELSE Top(b)
             lo == IF a.e < b.e THEN a.e ELSE b.e
             w == IF t - GuardDigits > lo THEN t - GuardDigits ELSE lo
         IN  Norm(Scaled(a, w) + Scaled(b, w), w)

Neg(a) == IF IsFin(a) THEN [a EXCEPT !.m = -a.m]
          ELSE IF IsInf(a) THEN Inf(-a.m) ELSE NaN

\* a + b (IEEE 754: inf + -inf is nan)
Add(a, b) ==
    IF IsNaN(a) \/ IsNaN(b) THEN NaN
    ELSE IF IsInf(a) /\ IsInf(b) THEN (IF a.m = b.m THEN a ELSE NaN)
    ELSE IF IsInf(a) THEN a
    ELSE IF IsInf(b) THEN b
    ELSE FinAdd(a, b)

Sub(a, b) == Add(a, Neg(b))

\* a * b (IEEE 754: 0 * inf is nan)
Mul(a, b) ==
    IF IsNaN(a) \/ IsNaN(b) THEN NaN
    ELSE IF IsInf(a) \/ IsInf(b)
         THEN (IF a.m = 0 \/ b.m = 0 THEN NaN ELSE Inf(Sign(a.m) * Sign(b.m)))
    ELSE Norm(a.m * b.m, a.e + b.e)

\* a / b for finite a and finite non-zero b: the dividend is widened to nine
\* digits, so the quotient carries more than Precision digits before rounding.
FinDiv(a, b) ==
    IF a.m = 0 THEN Zero
    ELSE LET s == 9 - NumDigits(Abs(a.m))
             q == (Abs(a.m) * Pow10(s)) \div Abs(b.m)
         IN  Norm(Sign(a.m) * Sign(b.m) * q, a.e - s - b.e)

\* numpy.float64 division: a zero divisor gives inf or nan (with a
\* RuntimeWarning), it does not raise.
NpDiv(a, b) ==
    IF IsNaN(a) \/ IsNaN(b) THEN NaN
    ELSE IF IsInf(a) THEN (IF IsInf(b) THEN NaN
                           ELSE Inf(a.m * (IF b.m < 0 THEN -1 ELSE 1)))
    ELSE IF IsInf(b) THEN Zero
    ELSE IF b.m = 0 THEN (IF a.m = 0 THEN NaN ELSE Inf(Sign(a.m)))
    ELSE FinDiv(a, b)

\* Python float division raises ZeroDivisionError on a zero divisor.
PyDivRaises(a, b) == IsFin(b) /\ b.m = 0

\* The quotient of a Python float division that does not raise.
PyDiv(a, b) == NpDiv(a, b)

\* base ** t for a Python float and a small positive int.
RECURSIVE Pow(_, _)
Pow(a, t) == IF t <= 0 THEN One ELSE Mul(Pow(a, t - 1), a)

\* a > b for finite numbers (every comparison with nan is False)
Gt(a, b) ==
    /\ ~IsNaN(a) /\ ~IsNaN(b)
    /\ LET d == Sub(a, b) IN d.m > 0

----------------------------------------------------------------------------
\* Cells and text.  A spreadsheet cell read by pandas is blank (NaN), a
\* number, or text; text is a sequence of one-character strings.

BlankCell == [t |-> "nan", v |-> Zero, s |-> << >>]
NumCell(v) == [t |-> "num", v |-> v, s |-> << >>]
StrCell(s) == [t |-> "str", v |-> Zero, s |-> s]

Digits == {"0", "1", "2", "3", "4", "5", "6", "7", "8", "9"}

DigitVal(c) ==
    CASE c = "0" -> 0 [] c = "1" -> 1 [] c = "2" -> 2 [] c = "3" -> 3
      [] c = "4" -> 4 [] c = "5" -> 5 [] c = "6" -> 6 [] c = "7" -> 7
      [] c = "8" -> 8 [] OTHER -> 9

\* str.replace(c, ''): every occurrence of the character is removed.
RECURSIVE Remove(_, _)
Remove(s, c) ==
    IF s = << >> THEN << >>
    ELSE IF Head(s) = c THEN Remove(Tail(s), c)
    ELSE << Head(s) >> \o Remove(Tail(s), c)

RECURSIVE LStrip(_)
LStrip(s) == IF s # << >> /\ Head(s) = " " THEN LStrip(Tail(s)) ELSE s

RECURSIVE RStrip(_)
RStrip(s) ==
    IF s # << >> /\ s[Len(s)] = " " THEN RStrip(SubSeq(s, 1, Len(s) - 1)) ELSE s

\* str.strip()
Strip(s) == RStrip(LStrip(s))

\* str.endswith(c)
EndsWith(s, c) == s # << >> /\ s[Len(s)] = c

\* The digits of s read as a decimal integer (s holds digits only).
RECURSIVE DigitsValue(_)
DigitsValue(s) ==
    IF s = << >> THEN 0
    ELSE 10 * DigitsValue(SubSeq(s, 1, Len(s) - 1)) + DigitVal(s[Len(s)])

\* Python's float(text) on the characters the model writes: surrounding
\* blanks are ignored, then an optional '-', then digits with at most one
\* '.', at least one digit.  Anything else is a ValueError (ok = FALSE).
ParseFloat(text) ==
    LET s    == Strip(text)
        neg  == s # << >> /\ Head(s) = "-"
        body == IF neg THEN Tail(s) ELSE s
        dots == {i \in 1..Len(body) : body[i] = "."}
        digs == {i \in 1..Len(body) : body[i] \in Digits}
        good == /\ digs # {}
                /\ Cardinality(dots) <= 1
                /\ Cardinality(dots) + Cardinality(digs) = Len(body)
        frac == IF dots = {} THEN 0
                ELSE Len(body) - (CHOOSE i \in dots : TRUE)
        mag  == DigitsValue(Remove(body, "."))
    IN  IF good
        THEN [ok |-> TRUE, v |-> Norm(IF neg THEN -mag ELSE mag, -frac)]
        ELSE [ok |-> FALSE, v |-> Zero]

Hundred == FromInt(100)

\* The tail of clean_and_convert: the percentage rule.
PercentRule(numeric_value, is_percentage) ==
    IF is_percentage /\ Gt(numeric_value, One)
    THEN PyDiv(numeric_value, Hundred)
    ELSE numeric_value

\* The cleaned text of a text cell and whether it ended in '%'.
CleanText(text) ==
    LET value_str == Strip(Remove(Remove(text, "$"), ","))
    IN  [pct |-> EndsWith(value_str, "%"),
         str |-> IF EndsWith(value_str, "%") THEN Remove(value_str, "%")
                 ELSE value_str]

clean_and_convert(value, is_percentage) ==
    IF value.t = "nan" \/ (value.t = "str" /\ value.s = << >>) THEN Zero
    ELSE IF value.t = "str"
    THEN LET c == CleanText(value.s)
             p == ParseFloat(c.str)
         IN  IF p.ok THEN PercentRule(p.v, is_percentage \/ c.pct)
             ELSE Zero
    ELSE PercentRule(value.v, is_percentage)

----------------------------------------------------------------------------
\* DCFModel: loading

years == 5
start_year == 2026

\* self.data = None
None == [loaded |-> FALSE]

SheetNames == {"Hipotesis_Base", "Proyecciones_Detalladas", "Impacto_Proyectos"}

\* The ten labels of Hipotesis_Base, as they read after the index has been
\* stripped, lower-cased and its blanks replaced by '_'.
BaseLabels ==
    {"ingresos_totales_2025", "gastos_fijos_operativos_2025", "dias_cxc",
     "dias_inv", "dias_cxp", "wacc", "g-tasa_de_crecimiento_a_perpetuidad",
     "tasa_isr", "dep_pct_base", "capex_pct_base"}

\* DataFrame.iloc[r, c] is an IndexError outside the frame.
InGrid(g, r, c) == r < g.rows /\ c < g.cols

\* get_base_value: df_base.loc[clean_label].iloc[0] through clean_and_convert
get_base_value(wb, clean_label, is_percentage) ==
    clean_and_convert(wb.labels[clean_label], is_percentage)

base_vars(wb) ==
    [Ingresos_Totales_2025 |-> get_base_value(wb, "ingresos_totales_2025", FALSE),
     Gastos_Fijos_Operativos_2025 |->
         get_base_value(wb, "gastos_fijos_operativos_2025", FALSE),
     Dias_CxC |-> get_base_value(wb, "dias_cxc", FALSE),
     Dias_Inv |-> get_base_value(wb, "dias_inv", FALSE),
     Dias_CxP |-> get_base_value(wb, "dias_cxp", FALSE),
     WACC |-> get_base_value(wb, "wacc", TRUE),
     G_Perpetuidad |->
         get_base_value(wb, "g-tasa_de_crecimiento_a_perpetuidad", TRUE),
     Tasa_ISR |-> get_base_value(wb, "tasa_isr", TRUE),
     Dep_Pct_Base |-> get_base_value(wb, "dep_pct_base", TRUE),
     CapEx_Pct_Base |-> get_base_value(wb, "capex_pct_base", TRUE)]

\* [clean_and_convert(val) for val in impacto_proyectos.iloc[r].values[3:8]]:
\* the slice never raises, it is shorter when the sheet has under 8 columns.
ImpactRow(wb, r) ==
    LET last == IF wb.imp.cols < 8 THEN wb.imp.cols ELSE 8
        n    == IF last > 3 THEN last - 3 ELSE 0
    IN  [i \in 1..n |-> clean_and_convert(wb.imp.cell[<<r, i + 2>>], FALSE)]

project_data(wb) ==
    [capex_inversion |-> ImpactRow(wb, 0),
     ingresos_adicionales |-> ImpactRow(wb, 4),
     gastos_ahorros_operativos |-> ImpactRow(wb, 8),
     depreciacion_adicional |-> ImpactRow(wb, 12)]

\* The exception the body of _load_data's try block raises first, "none"
\* when it reaches its return, "missing" when the path check returns None.
LoadRaises(wb) ==
    IF wb.kind = "path" /\ ~wb.exists THEN "missing"
    ELSE IF ~wb.opens THEN "ValueError"
    ELSE IF "Hipotesis_Base" \notin wb.sheets THEN "ValueError"
    ELSE IF ~(BaseLabels \subseteq DOMAIN wb.labels) THEN "KeyError"
    ELSE IF "Proyecciones_Detalladas" \notin wb.sheets THEN "ValueError"
    ELSE IF "Impacto_Proyectos" \notin wb.sheets THEN "ValueError"
    ELSE IF wb.imp.rows < 13 THEN "IndexError"
    ELSE "none"

\* _load_data with its KeyError handler only.
LoadCaughtKeyError == {"KeyError"}

\* The handlers of _load_data: KeyError, then every other Exception.
LoadCaught == {"KeyError", "ValueError", "IndexError"}

\* _load_data: [exc, data]; exc is the exception that leaves the method.
LoadData(wb) ==
    LET e == LoadRaises(wb)
    IN  IF e = "missing" \/ e \in LoadCaught THEN [exc |-> "none", data |-> None]
        ELSE IF e # "none" THEN [exc |-> e, data |-> None]
        ELSE [exc |-> "none",
              data |-> [loaded |-> TRUE,
                        base |-> base_vars(wb),
                        proyecciones |-> wb.name,
                        proyectos |-> project_data(wb)]]

----------------------------------------------------------------------------
\* Workbooks offered to the loader

\* A numeric cell holding m * 10^e, m without trailing zeros.
N(m, e) == NumCell([k |-> "fin", m |-> m, e |-> e])
T(s) == StrCell(s)

\* A sheet read as a positional grid: rowcells maps a row index to the cells
\* of its columns 0, 1, ...; every other cell is blank.
Sheet(rows, cols, rowcells) ==
    [rows |-> rows, cols |-> cols,
     cell |-> [rc \in (0..(rows - 1)) \X (0..(cols - 1)) |->
                 IF rc[1] \in DOMAIN rowcells /\ rc[2] + 1 <= Len(rowcells[rc[1]])
                 THEN rowcells[rc[1]][rc[2] + 1]
                 ELSE BlankCell]]

Labels(ingresos, gastos, cxc, inv, cxp, wacc, g, isr, dep, capex) ==
    [l \in BaseLabels |->
        CASE l = "ingresos_totales_2025" -> ingresos
          [] l = "gastos_fijos_operativos_2025" -> gastos
          [] l = "dias_cxc" -> cxc
          [] l = "dias_inv" -> inv
          [] l = "dias_cxp" -> cxp
          [] l = "wacc" -> wacc
          [] l = "g-tasa_de_crecimiento_a_perpetuidad" -> g
          [] l = "tasa_isr" -> isr
          [] l = "dep_pct_base" -> dep
          [] OTHER -> capex]

Without(labels, l) == [x \in (DOMAIN labels) \ {l} |-> labels[x]]

\* Numeric cells throughout: three streams growing at different rates in
\* different years, project impact in every year.
LabelsA ==
    Labels(N(1, 3), N(1, 2), N(3, 1), N(2, 1), N(1, 1),
           N(2, -1), N(3, -2), N(3, -1), N(5, -2), N(4, -2))

GridRowsA ==
    (1 :> << N(5, 2) >>) @@
    (2 :> << BlankCell, N(1, -1), N(2, -1), N(0, 0), N(5, -2), N(1, -1) >>) @@
    (3 :> << BlankCell, N(4, -1), N(4, -1), N(4, -1), N(4, -1), N(4, -1) >>) @@
    (5 :> << N(3, 2) >>) @@
    (6 :> << BlankCell, N(5, -2), N(5, -2), N(1, -1), N(0, 0), N(2, -1) >>) @@
    (7 :> << BlankCell, N(5, -1), N(5, -1), N(5, -1), N(5, -1), N(5, -1) >>) @@
    (9 :> << N(2, 2) >>) @@
    (10 :> << BlankCell, N(0, 0), N(1, -1), N(1, -1), N(2, -1), N(0, 0) >>) @@
    (11 :> << BlankCell, N(3, -1), N(3, -1), N(3, -1), N(3, -1), N(3, -1) >>) @@
    (13 :> << BlankCell, N(1, -1), N(1, -1), N(1, -1), N(1, -1), N(1, -1) >>)

ImpRowsA ==
    (0 :> << BlankCell, BlankCell, BlankCell,
             N(1, 1), N(2, 1), N(0, 0), N(0, 0), N(5, 0) >>) @@
    (4 :> << BlankCell, BlankCell, BlankCell,
             N(0, 0), N(2, 1), N(3, 1), N(3, 1), N(3, 1) >>) @@
    (8 :> << BlankCell, BlankCell, BlankCell,
             N(0, 0), N(5, 0), N(5, 0), N(5, 0), N(5, 0) >>) @@
    (12 :> << BlankCell, BlankCell, BlankCell,
              N(1, 0), N(2, 0), N(2, 0), N(2, 0), N(2, 0) >>)

WorkbookA ==
    [name |-> "A", kind |-> "path", exists |-> TRUE, opens |-> TRUE,
     sheets |-> SheetNames, labels |-> LabelsA,
     grid |-> Sheet(14, 6, GridRowsA), imp |-> Sheet(13, 8, ImpRowsA)]

\* The same figures typed as text: "20%", "3%", "30", "$100", "10%".
LabelsText ==
    Labels(T(<<"1", ",", "0", "0", "0">>), T(<<"$", "1", "0", "0">>),
           T(<<"3", "0">>), T(<<"2", "0">>), T(<<"1", "0">>),
           T(<<"2", "0", "%">>), T(<<"3", "%">>), T(<<"3", "0">>),
           T(<<"5", "%">>), T(<<"4">>))

GridRowsText ==
    (1 :> << T(<<"5", "0", "0">>) >>) @@
    (2 :> << BlankCell, T(<<"1", "0", "%">>), T(<<"-", "5", "%">>),
             T(<<"x">>), T(<<"5">>), T(<<"0", ".", "1">>) >>) @@
    (3 :> << BlankCell, T(<<"4", "0">>), T(<<"4", "0">>), T(<<"4", "0">>),
             T(<<"4", "0">>), T(<<"4", "0">>) >>) @@
    (5 :> << T(<<"$", "3", "0", "0">>) >>) @@
    (9 :> << N(2, 2) >>) @@
    (13 :> << BlankCell, N(1, -1), N(1, -1), N(1, -1), N(1, -1), N(1, -1) >>)

WorkbookText ==
    [name |-> "Text", kind |-> "path", exists |-> TRUE, opens |-> TRUE,
     sheets |-> SheetNames, labels |-> LabelsText,
     grid |-> Sheet(14, 6, GridRowsText), imp |-> Sheet(13, 8, ImpRowsA)]

\* A template whose cells are all still blank.
WorkbookBlank ==
    [name |-> "Blank", kind |-> "path", exists |-> TRUE, opens |-> TRUE,
     sheets |-> SheetNames, labels |-> [l \in BaseLabels |-> BlankCell],
     grid |-> Sheet(14, 6, << >>), imp |-> Sheet(13, 8, << >>)]

\* WorkbookA with a WACC cell of -1.
WorkbookMinusOne ==
    [WorkbookA EXCEPT !.name = "MinusOne",
                      !.labels = [LabelsA EXCEPT !["wacc"] = N(-1, 0)]]

WorkbookNoFile ==
    [WorkbookA EXCEPT !.name = "NoFile", !.exists = FALSE, !.opens = FALSE]

WorkbookNoBase ==
    [WorkbookA EXCEPT !.name = "NoBase",
                      !.sheets = SheetNames \ {"Hipotesis_Base"}]

WorkbookNoGrid ==
    [WorkbookA EXCEPT !.name = "NoGrid",
                      !.sheets = SheetNames \ {"Proyecciones_Detalladas"}]

WorkbookNoImpact ==
    [WorkbookA EXCEPT !.name = "NoImpact",
                      !.sheets = SheetNames \ {"Impacto_Proyectos"}]

WorkbookNoLabel(l) ==
    [WorkbookA EXCEPT !.name = "NoLabel", !.labels = Without(LabelsA, l)]

WorkbookShortGrid ==
    [WorkbookA EXCEPT !.name = "ShortGrid", !.grid = Sheet(13, 6, GridRowsA)]

WorkbookNarrowGrid ==
    [WorkbookA EXCEPT !.name = "NarrowGrid", !.grid = Sheet(14, 5, GridRowsA)]

WorkbookShortImpact ==
    [WorkbookA EXCEPT !.name = "ShortImpact", !.imp = Sheet(12, 8, ImpRowsA)]

WorkbookNarrowImpact ==
    [WorkbookA EXCEPT !.name = "NarrowImpact", !.imp = Sheet(13, 7, ImpRowsA)]

\* Three streams that stand still in 2026 and cost nothing to sell; no
\* project, no base depreciation or CapEx, nothing owed by customers.
GridRowsFlat ==
    (1 :> << N(5, 2) >>) @@
    (2 :> << BlankCell, N(0, 0), N(1, -1), N(1, -1), N(1, -1), N(1, -1) >>) @@
    (5 :> << N(3, 2) >>) @@
    (6 :> << BlankCell, N(0, 0), N(2, -1), N(2, -1), N(2, -1), N(2, -1) >>) @@
    (9 :> << N(2, 2) >>)

WorkbookFlat ==
    [name |-> "Flat", kind |-> "path", exists |-> TRUE, opens |-> TRUE,
     sheets |-> SheetNames,
     labels |-> Labels(N(1, 3), N(1, 2), N(0, 0), N(2, 1), N(1, 1),
                       N(2, -1), N(3, -2), N(3, -1), N(0, 0), N(0, 0)),
     grid |-> Sheet(14, 6, GridRowsFlat), imp |-> Sheet(13, 8, << >>)]

\* WorkbookFlat with 30 days of receivables.
WorkbookFlatDays ==
    [WorkbookFlat EXCEPT !.name = "FlatDays", !.labels["dias_cxc"] = N(3, 1)]

\* WorkbookFlat with variable operating expenses of 10% of revenue in 2026.
WorkbookFlatVar ==
    [WorkbookFlat EXCEPT
        !.name = "FlatVar",
        !.grid = Sheet(14, 6, (13 :> << BlankCell, N(1, -1) >>) @@ GridRowsFlat)]

Workbooks ==
    {WorkbookA, WorkbookText, WorkbookBlank, WorkbookMinusOne,
     WorkbookFlat, WorkbookFlatDays, WorkbookFlatVar,
     WorkbookNoFile, WorkbookNoBase, WorkbookNoGrid, WorkbookNoImpact,
     WorkbookShortGrid, WorkbookNarrowGrid, WorkbookShortImpact,
     WorkbookNarrowImpact}
    \cup {WorkbookNoLabel(l) : l \in BaseLabels}

\* The frame of Proyecciones_Detalladas of each workbook, by workbook name.
Frames == [n \in {wb.name : wb \in Workbooks} |->
              (CHOOSE wb \in Workbooks : wb.name = n).grid]

----------------------------------------------------------------------------
\* DCFModel: projection

base_year_col == 0

\* The rows of Proyecciones_Detalladas the loop indexes.
GridRowsRead == {1, 2, 3, 5, 6, 7, 9, 10, 11, 13}

g_fijos_inflacion == Fin(3, -2)

DaysInYear == FromInt(365)

\* data['proyecciones'] is a reference to the frame parsed at load, which
\* nothing writes afterwards: the state keeps the reference.
Frame(data) == Frames[data.proyecciones]

\* proyecciones_raw.iloc[r, c]
Cell(proyecciones_raw, r, c) == proyecciones_raw.cell[<<r, c>>]

\* Year t raises IndexError: a grid read outside the frame, or a project
\* list shorter than t.
YearIndexError(data, proyecciones_raw, t) ==
    \/ \E r \in GridRowsRead :
          ~InGrid(proyecciones_raw, r, IF r \in {1, 5, 9} THEN base_year_col ELSE t)
    \/ Len(data.proyectos.ingresos_adicionales) < t
    \/ Len(data.proyectos.gastos_ahorros_operativos) < t
    \/ Len(data.proyectos.depreciacion_adicional) < t
    \/ Len(data.proyectos.capex_inversion) < t

\* A stream that grows from its base-year level in every year.
IngresoFromBase(data, proyecciones_raw, t, prev, key, row) ==
    Mul(clean_and_convert(Cell(proyecciones_raw, row, base_year_col), FALSE),
        Add(One, clean_and_convert(Cell(proyecciones_raw, row + 1, t), TRUE)))

\* One revenue stream of year t: get_prev_ingreso, then growth.
Ingreso(data, proyecciones_raw, t, prev, key, row) ==
    LET ingreso_base_2025 == clean_and_convert(Cell(proyecciones_raw, row, base_year_col), FALSE)
        g_ingreso == clean_and_convert(Cell(proyecciones_raw, row + 1, t), TRUE)
        ingreso_prev == IF t > 1 THEN prev[key] ELSE ingreso_base_2025
    IN  Mul(ingreso_prev, Add(One, g_ingreso))

CostoVenta(data, proyecciones_raw, t, ingreso_actual, row) ==
    Mul(ingreso_actual, clean_and_convert(Cell(proyecciones_raw, row + 2, t), TRUE))

\* total_costo_venta after the three streams
TotalCostoVenta(data, proyecciones_raw, t, ingreso_1_actual, ingreso_2_actual, ingreso_G_actual) ==
    Add(Add(Add(Zero, CostoVenta(data, proyecciones_raw, t, ingreso_1_actual, 1)),
            CostoVenta(data, proyecciones_raw, t, ingreso_2_actual, 5)),
        CostoVenta(data, proyecciones_raw, t, ingreso_G_actual, 9))

\* Fixed expenses that never inflate.
GastosFijosFlat(base, t) == base.Gastos_Fijos_Operativos_2025

\* gastos_fijos_actual = base_gastos_fijos * (1 + g_fijos_inflacion)**t
GastosFijos(base, t) ==
    Mul(base.Gastos_Fijos_Operativos_2025, Pow(Add(One, g_fijos_inflacion), t))

\* df_proj.loc[year_str, 'EBIT']
Ebit(data, proyecciones_raw, t, ingresos_totales, total_costo_venta, total_ingresos_base) ==
    Add(Sub(Sub(Sub(ingresos_totales, total_costo_venta),
                GastosFijos(data.base, t)),
            Mul(total_ingresos_base,
                clean_and_convert(Cell(proyecciones_raw, 13, t), TRUE))),
        data.proyectos.gastos_ahorros_operativos[t])

\* df_proj.loc[year_str, 'Depreciacion']
Depreciacion(data, t, total_ingresos_base) ==
    Add(Mul(total_ingresos_base, data.base.Dep_Pct_Base),
        data.proyectos.depreciacion_adicional[t])

\* NOPAT taxed at the discount rate instead of the tax rate.
NopatOnWacc(base, ebit) == Mul(ebit, Sub(One, base.WACC))

\* df_proj.loc[year_str, 'NOPAT']
Nopat(base, ebit) == Mul(ebit, Sub(One, base.Tasa_ISR))

\* ck_current
CkCurrent(base, ingresos_totales, total_costo_venta) ==
    Sub(Add(Mul(PyDiv(base.Dias_CxC, DaysInYear), ingresos_totales),
            Mul(PyDiv(base.Dias_Inv, DaysInYear), total_costo_venta)),
        Mul(PyDiv(base.Dias_CxP, DaysInYear), total_costo_venta))

\* ck_prev that never reads the stored level.
CkPrevZero(t, prev) == Zero

\* ck_prev
CkPrev(t, prev) == IF t > 1 THEN prev.Capital_de_Trabajo ELSE Zero

\* df_proj.loc[year_str, 'CapEx Total']
CapExTotal(data, t, total_ingresos_base) ==
    Add(Mul(total_ingresos_base, data.base.CapEx_Pct_Base),
        data.proyectos.capex_inversion[t])

\* A free cash flow that leaves the CapEx out.
FcfWithoutCapEx(nopat, depreciacion, delta_ctn, capex_total) ==
    Sub(Add(nopat, depreciacion), delta_ctn)

\* df_proj.loc[year_str, 'FCF']
Fcf(nopat, depreciacion, delta_ctn, capex_total) ==
    Sub(Sub(Add(nopat, depreciacion), delta_ctn), capex_total)

\* The row of year t once its columns are known.
RowOf(t, ingreso_1_actual, ingreso_2_actual, ingreso_G_actual, ingresos_totales, ebit, depreciacion, nopat, ck_current, delta_ctn, capex_total) ==
    [year |-> start_year + t - 1,
     Ingresos_B1 |-> ingreso_1_actual,
     Ingresos_B2 |-> ingreso_2_actual,
     Ingresos_G |-> ingreso_G_actual,
     Ingresos_Totales |-> ingresos_totales,
     EBIT |-> ebit,
     Depreciacion |-> depreciacion,
     NOPAT |-> nopat,
     Capital_de_Trabajo |-> ck_current,
     Delta_CTN |-> delta_ctn,
     CapEx_Total |-> capex_total,
     FCF |-> Fcf(nopat, depreciacion, delta_ctn, capex_total)]

\* From EBIT and the working-capital level to the row.
RowFromEbit(data, t, prev, ingreso_1_actual, ingreso_2_actual, ingreso_G_actual, total_ingresos_base, ingresos_totales, ebit, ck_current) ==
    RowOf(t, ingreso_1_actual, ingreso_2_actual, ingreso_G_actual,
          ingresos_totales, ebit,
          Depreciacion(data, t, total_ingresos_base),
          Nopat(data.base, ebit),
          ck_current,
          Sub(ck_current, CkPrev(t, prev)),
          CapExTotal(data, t, total_ingresos_base))

\* From the totals of the three streams to the row.
RowFromTotals(data, proyecciones_raw, t, prev, ingreso_1_actual, ingreso_2_actual, ingreso_G_actual, total_costo_venta, total_ingresos_base, ingresos_totales) ==
    RowFromEbit(data, t, prev, ingreso_1_actual, ingreso_2_actual,
                ingreso_G_actual, total_ingresos_base, ingresos_totales,
                Ebit(data, proyecciones_raw, t, ingresos_totales, total_costo_venta,
                     total_ingresos_base),
                CkCurrent(data.base, ingresos_totales, total_costo_venta))

\* From the three streams to the row: total_ingresos_base is their sum and
\* 'Ingresos Totales' adds the project revenue.
RowFromStreams(data, proyecciones_raw, t, prev, ingreso_1_actual, ingreso_2_actual, ingreso_G_actual, total_ingresos_base) ==
    RowFromTotals(data, proyecciones_raw, t, prev, ingreso_1_actual, ingreso_2_actual,
                  ingreso_G_actual,
                  TotalCostoVenta(data, proyecciones_raw, t, ingreso_1_actual, ingreso_2_actual,
                                  ingreso_G_actual),
                  total_ingresos_base,
                  Add(total_ingresos_base,
                      data.proyectos.ingresos_adicionales[t]))

\* total_ingresos_base
TotalIngresosBase(ingreso_1_actual, ingreso_2_actual, ingreso_G_actual) ==
    Add(Add(ingreso_1_actual, ingreso_2_actual), ingreso_G_actual)

\* The row of year t from the revenue of its three streams.
StreamsRow(data, proyecciones_raw, t, prev, ingreso_1_actual, ingreso_2_actual, ingreso_G_actual) ==
    RowFromStreams(data, proyecciones_raw, t, prev, ingreso_1_actual, ingreso_2_actual,
                   ingreso_G_actual,
                   TotalIngresosBase(ingreso_1_actual, ingreso_2_actual,
                                     ingreso_G_actual))

\* The body of the loop for year t; prev is the row stored for year t-1.
YearRow(data, proyecciones_raw, t, prev) ==
    StreamsRow(data, proyecciones_raw, t, prev,
               Ingreso(data, proyecciones_raw, t, prev, "Ingresos_B1", 1),
               Ingreso(data, proyecciones_raw, t, prev, "Ingresos_B2", 5),
               Ingreso(data, proyecciones_raw, t, prev, "Ingresos_G", 9))

\* df_proj with the row of year t added to the rows of the years before.
AppendYear(data, proyecciones_raw, t, before) ==
    Append(before,
           YearRow(data, proyecciones_raw, t,
                   IF t > 1 THEN before[t - 1] ELSE << >>))

\* The rows of df_proj after the loop has run years 1..t.
RECURSIVE LoopRows(_, _, _)
LoopRows(data, proyecciones_raw, t) ==
    IF t = 0 THEN << >>
    ELSE AppendYear(data, proyecciones_raw, t,
                    LoopRows(data, proyecciones_raw, t - 1))

\* (1 + wacc)**i, the divisor of the discount factor of year i
DiscountBase(wacc, i) == Pow(Add(One, wacc), i)

\* One row with its 'VP Factor' and 'Valor Presente FCF'.
WithFactor(row, factor) ==
    [year |-> row.year,
     Ingresos_B1 |-> row.Ingresos_B1,
     Ingresos_B2 |-> row.Ingresos_B2,
     Ingresos_G |-> row.Ingresos_G,
     Ingresos_Totales |-> row.Ingresos_Totales,
     EBIT |-> row.EBIT,
     Depreciacion |-> row.Depreciacion,
     NOPAT |-> row.NOPAT,
     Capital_de_Trabajo |-> row.Capital_de_Trabajo,
     Delta_CTN |-> row.Delta_CTN,
     CapEx_Total |-> row.CapEx_Total,
     FCF |-> row.FCF,
     VP_Factor |-> factor,
     Valor_Presente_FCF |-> Mul(row.FCF, factor)]

\* discount_factors = [(1 / (1 + wacc)**i) for i in proj_years_idx]
DiscountFactor(wacc, i) == PyDiv(One, DiscountBase(wacc, i))

\* 'VP Factor' and 'Valor Presente FCF' added to every row.
Discounted(rows, wacc) ==
    [i \in 1..Len(rows) |-> WithFactor(rows[i], DiscountFactor(wacc, i))]

\* The loop writing into self.proyeccion as it goes: a zero discount base
\* leaves the rows of the loop stored.
ProjectedStoredEarly(data, proyecciones_raw, proyeccion) ==
    IF \E t \in 1..years : YearIndexError(data, proyecciones_raw, t)
    THEN [exc |-> "IndexError", ok |-> FALSE, proyeccion |-> proyeccion]
    ELSE IF \E i \in 1..years : PyDivRaises(One, DiscountBase(data.base.WACC, i))
    THEN [exc |-> "ZeroDivisionError", ok |-> FALSE,
          proyeccion |-> LoopRows(data, proyecciones_raw, years)]
    ELSE [exc |-> "none", ok |-> TRUE,
          proyeccion |-> Discounted(LoopRows(data, proyecciones_raw, years),
                                    data.base.WACC)]

\* The loop and the discounting on the frame proyecciones_raw: a raise leaves
\* self.proyeccion alone, the frame being local until the last line.
Projected(data, proyecciones_raw, proyeccion) ==
    IF \E t \in 1..years : YearIndexError(data, proyecciones_raw, t)
    THEN [exc |-> "IndexError", ok |-> FALSE, proyeccion |-> proyeccion]
    ELSE IF \E i \in 1..years : PyDivRaises(One, DiscountBase(data.base.WACC, i))
    THEN [exc |-> "ZeroDivisionError", ok |-> FALSE, proyeccion |-> proyeccion]
    ELSE [exc |-> "none", ok |-> TRUE,
          proyeccion |-> Discounted(LoopRows(data, proyecciones_raw, years),
                                    data.base.WACC)]

\* One stored row with the FCF of the new row added to it.
Accumulated(stored, row) ==
    [row EXCEPT !.FCF = Add(stored.FCF, row.FCF),
                !.Valor_Presente_FCF = Add(stored.Valor_Presente_FCF,
                                           row.Valor_Presente_FCF)]

\* _calculate_projection writing into the stored frame instead of a new one.
AccumulatedOn(proyeccion, p) ==
    IF ~p.ok \/ proyeccion = << >> THEN p
    ELSE [p EXCEPT !.proyeccion =
             [i \in 1..years |-> Accumulated(proyeccion[i], p.proyeccion[i])]]

CalculateProjectionInPlace(data, proyeccion) ==
    IF ~data.loaded THEN [exc |-> "none", ok |-> FALSE, proyeccion |-> proyeccion]
    ELSE AccumulatedOn(proyeccion, Projected(data, Frame(data), proyeccion))

\* _calculate_projection: [exc, ok, proyeccion]
CalculateProjection(data, proyeccion) ==
    IF ~data.loaded THEN [exc |-> "none", ok |-> FALSE, proyeccion |-> proyeccion]
    ELSE Projected(data, Frame(data), proyeccion)

----------------------------------------------------------------------------
\* DCFModel: valuation

\* self.valoracion = {}
EmptyValuation == [filled |-> FALSE]

\* self.proyeccion['Valor Presente FCF'].sum()
RECURSIVE SumPV(_, _)
SumPV(rows, n) ==
    IF n = 0 THEN Zero ELSE Add(SumPV(rows, n - 1), rows[n].Valor_Presente_FCF)

\* wacc - g, the divisor of the Gordon formula
GordonDivisor(wacc, g) == Sub(wacc, g)

\* valor_terminal = fcf_perpetuo / (wacc - g), fcf_perpetuo = fcf_n * (1 + g)
ValorTerminal(fcf_n, wacc, g) ==
    NpDiv(Mul(fcf_n, Add(One, g)), GordonDivisor(wacc, g))

\* The enterprise value without the terminal value.
ValorEmpresaSinTerminal(vp_fcf_proyectados, vp_vt) == vp_fcf_proyectados

\* valor_empresa_ve = vp_fcf_proyectados + vp_vt
ValorEmpresa(vp_fcf_proyectados, vp_vt) == Add(vp_fcf_proyectados, vp_vt)

\* The dictionary stored in self.valoracion.
Summary(base, vp_fcf_proyectados, valor_terminal, vp_vt) ==
    [filled |-> TRUE,
     VE_FCF_Proyectados |-> vp_fcf_proyectados,
     Valor_Terminal |-> valor_terminal,
     VP_Valor_Terminal |-> vp_vt,
     Valor_Empresa_VE |-> ValorEmpresa(vp_fcf_proyectados, vp_vt),
     WACC |-> base.WACC,
     G_Perpetuidad |-> base.G_Perpetuidad,
     Tasa_ISR |-> base.Tasa_ISR]

\* vp_vt = valor_terminal * vp_factor_n
SummaryFromTerminal(base, proyeccion, valor_terminal) ==
    Summary(base, SumPV(proyeccion, Len(proyeccion)), valor_terminal,
            Mul(valor_terminal, proyeccion[years].VP_Factor))

\* _calculate_valuation: [ok, valoracion]
CalculateValuation(data, proyeccion, valoracion) ==
    IF proyeccion = << >> THEN [ok |-> FALSE, valoracion |-> valoracion]
    ELSE [ok |-> TRUE,
          valoracion |->
              SummaryFromTerminal(data.base, proyeccion,
                                  ValorTerminal(proyeccion[years].FCF,
                                                data.base.WACC,
                                                data.base.G_Perpetuidad))]

\* How a run_model call ends and what it leaves stored.
Outcome(exc, ret, proyeccion, valoracion) ==
    [exc |-> exc, ret |-> ret, proyeccion |-> proyeccion,
     valoracion |-> valoracion]

\* run_model returning False after both results are stored.
AfterValuationReturnsFalse(p, v) ==
    Outcome("none", FALSE, p.proyeccion, v.valoracion)

\* return self._calculate_valuation()
AfterValuation(p, v) == Outcome("none", v.ok, p.proyeccion, v.valoracion)

\* success = self._calculate_projection(); if success: ...; return False
AfterProjection(data, valoracion, p) ==
    IF p.exc # "none" THEN Outcome(p.exc, FALSE, p.proyeccion, valoracion)
    ELSE IF ~p.ok THEN Outcome("none", FALSE, p.proyeccion, valoracion)
    ELSE AfterValuation(p, CalculateValuation(data, p.proyeccion, valoracion))

\* run_model and _calculate_projection without their guards on self.data:
\* data['base'] on None is a TypeError.
RunModelUnguarded(data, proyeccion, valoracion) ==
    IF ~data.loaded THEN Outcome("TypeError", FALSE, proyeccion, valoracion)
    ELSE AfterProjection(data, valoracion, CalculateProjection(data, proyeccion))

\* run_model: [exc, ret, proyeccion, valoracion]
RunModelOn(data, proyeccion, valoracion) ==
    IF ~data.loaded THEN Outcome("none", FALSE, proyeccion, valoracion)
    ELSE AfterProjection(data, valoracion, CalculateProjection(data, proyeccion))

----------------------------------------------------------------------------
\* Front-end text: the sensitivity fields hold text

DigitChar(d) ==
    CASE d = 0 -> "0" [] d = 1 -> "1" [] d = 2 -> "2" [] d = 3 -> "3"
      [] d = 4 -> "4" [] d = 5 -> "5" [] d = 6 -> "6" [] d = 7 -> "7"
      [] d = 8 -> "8" [] OTHER -> "9"

RECURSIVE IntStr(_)
IntStr(n) ==
    IF n < 10 THEN << DigitChar(n) >>
    ELSE IntStr(n \div 10) \o << DigitChar(n % 10) >>

\* f"{v:.1f}" of a finite float: one decimal, ties to even.
Format1f(v) ==
    IF ~IsFin(v) THEN << "n", "a", "n" >>
    ELSE LET a == Abs(v.m)
             tenths ==
                 IF v.e + 1 >= 0 THEN a * Pow10(v.e + 1)
                 ELSE LET p == Pow10(-(v.e + 1))
                          q == a \div p
                          r == a % p
                      IN  IF (2 * r > p) \/ (2 * r = p /\ q % 2 = 1)
                          THEN q + 1 ELSE q
         IN  (IF v.m < 0 THEN << "-" >> ELSE << >>)
             \o IntStr(tenths \div 10) \o << ".", DigitChar(tenths % 10) >>

----------------------------------------------------------------------------
\* State

VARIABLES
    dcf_model,            \* an instance exists (main.py: dcf_model is not None)
    data,                 \* DCFModel.data
    proyeccion,           \* DCFModel.proyeccion: << >> or the five rows
    valoracion,           \* DCFModel.valoracion
    wacc_input,           \* text of the WACC field (main.py)
    g_perpetuidad_input,  \* text of the g field (main.py)
    status_text,          \* the status line (main.py)
    shown,                \* the results the front-end last displayed
    last,                 \* the last operation and how it ended
    cc_value,             \* clean_and_convert: the cell
    cc_hint,              \* clean_and_convert: is_percentage
    cc_out,               \* clean_and_convert: the result, once computed
    inflight,             \* main.py: where each running handler call stands
    issued                \* the (WACC, g) pairs the handler calls were given

engine == << dcf_model, data, proyeccion, valoracion >>
ui == << wacc_input, g_perpetuidad_input, status_text, shown >>
conv == << cc_value, cc_hint, cc_out >>
conc == << inflight, issued >>
vars == << dcf_model, data, proyeccion, valoracion, wacc_input,
           g_perpetuidad_input, status_text, shown, last,
           cc_value, cc_hint, cc_out, inflight, issued >>

NoResults == [summary |-> EmptyValuation, table |-> << >>]

Pending == [k |-> "pending", m |-> 0, e |-> 0]

\* The threads the page runs run_recalculation on.
Triggers == {"first", "second"}

\* No call of run_recalculation is running on the thread.
Idle == [pc |-> "idle", w |-> Zero, g |-> Zero]

\* Which part of the parameter bundle an operation changed.
ParametersChanged(old, new) ==
    IF ~old.loaded \/ ~new.loaded THEN "bundle"
    ELSE IF new = old THEN "none"
    ELSE IF new = [old EXCEPT !.base.WACC = new.base.WACC] THEN "WACC"
    ELSE "other"

\* How an operation ended; had tells whether a summary was stored when it
\* began, changed what it did to the parameter bundle.
Ended(op, exc, ret, caught, wb, field, changed) ==
    [op |-> op, exc |-> exc, ret |-> ret, caught |-> caught,
     wb |-> wb, field |-> field, had |-> valoracion.filled,
     changed |-> changed]

InitEngine ==
    /\ dcf_model = FALSE
    /\ data = None
    /\ proyeccion = << >>
    /\ valoracion = EmptyValuation
    /\ wacc_input = << >>
    /\ g_perpetuidad_input = << >>
    /\ status_text = "start"
    /\ shown = NoResults
    /\ last = [op |-> "init", exc |-> "none", ret |-> "None", caught |-> "none",
              wb |-> "-", field |-> "-", had |-> FALSE, changed |-> "none"]
    /\ inflight = [th \in Triggers |-> Idle]
    /\ issued = << >>

Init ==
    /\ InitEngine
    /\ cc_value = BlankCell
    /\ cc_hint = FALSE
    /\ cc_out = Pending

----------------------------------------------------------------------------
\* Operations of DCFModel

\* DCFModel(file_source)
Construct(wb) ==
    \E c \in {LoadData(wb)} :
        /\ IF c.exc # "none"
           THEN UNCHANGED engine
           ELSE /\ dcf_model' = TRUE
                /\ data' = c.data
                /\ proyeccion' = << >>
                /\ valoracion' = EmptyValuation
        /\ last' = Ended("construct", c.exc, "None", "none", wb.name, "-",
                         IF c.exc # "none" THEN "none" ELSE "bundle")
        /\ UNCHANGED << ui, conv, conc >>

\* The text of what run_model returned.
Returned(r) ==
    IF r.exc # "none" THEN "None" ELSE IF r.ret THEN "True" ELSE "False"

\* model.run_model()
RunModel ==
    /\ dcf_model
    /\ \E r \in {RunModelOn(data, proyeccion, valoracion)} :
           /\ proyeccion' = r.proyeccion
           /\ valoracion' = r.valoracion
           /\ last' = Ended("run_model", r.exc, Returned(r), "none", "-", "-",
                            "none")
    /\ UNCHANGED << dcf_model, data, ui, conv, conc >>

----------------------------------------------------------------------------
\* Desktop front-end (main.py)

\* update_sensitivity_inputs and update_results after a successful upload
UploadShown(c, r) ==
    /\ status_text' = "loaded"
    /\ wacc_input' = Format1f(Mul(c.data.base.WACC, Hundred))
    /\ g_perpetuidad_input' = Format1f(Mul(c.data.base.G_Perpetuidad, Hundred))
    /\ shown' = [summary |-> r.valoracion, table |-> r.proyeccion]

\* handle_file_pick_consolidated with a file picked, through
\* execute_model_after_upload_sync
ExecuteModelAfterUpload(wb) ==
    \E c \in {LoadData(wb)} :
    \E r \in {RunModelOn(c.data, << >>, EmptyValuation)} :
        /\ UNCHANGED << conv, conc >>
        /\ IF c.exc # "none"
           THEN /\ UNCHANGED << engine, wacc_input, g_perpetuidad_input, shown >>
                /\ status_text' = "loading"
                /\ last' = Ended("upload", c.exc, "None", "none", wb.name, "-",
                                 "none")
           ELSE /\ dcf_model' = TRUE
                /\ data' = c.data
                /\ proyeccion' = r.proyeccion
                /\ valoracion' = r.valoracion
                /\ last' = Ended("upload", r.exc, "None", "none", wb.name, "-",
                                 "bundle")
                /\ IF r.exc # "none"
                   THEN /\ status_text' = "loading"
                        /\ UNCHANGED << wacc_input, g_perpetuidad_input, shown >>
                   ELSE IF c.data.loaded /\ r.ret
                   THEN UploadShown(c, r)
                   ELSE /\ status_text' = "load_error"
                        /\ UNCHANGED << wacc_input, g_perpetuidad_input, shown >>

\* The files a user picks.
PickedWorkbooks ==
    {WorkbookA, WorkbookBlank, WorkbookMinusOne, WorkbookNoBase,
     WorkbookNarrowImpact}

\* The texts a user types into a sensitivity field.
SensTexts ==
    { << "1", "0" >>, << "-", "1", "0", "0" >>, << "x" >> }

\* dcf_model.data['base'][...] = new_pct / 100, twice
Recalculated(d, new_wacc_pct, new_g_pct) ==
    [d EXCEPT !.base.WACC = PyDiv(new_wacc_pct, Hundred),
              !.base.G_Perpetuidad = PyDiv(new_g_pct, Hundred)]

\* The handler returns or raises without touching the model.
RecalculationRefused(field, status, exc, caught) ==
    /\ status_text' = status
    /\ UNCHANGED << data, proyeccion, valoracion, shown >>
    /\ last' = Ended("recalculation", exc, "None", caught, "-", field, "none")

\* recalculate_dcf_model_sync(new_wacc_pct, new_g_pct) on loaded data, r
\* being what its run_model did; update_results reads the summary.
RecalculateDcfModelSync(field, d, r) ==
    /\ data' = d
    /\ proyeccion' = r.proyeccion
    /\ valoracion' = r.valoracion
    /\ IF r.exc # "none"
       THEN /\ UNCHANGED << shown, status_text >>
            /\ last' = Ended("recalculation", r.exc, "None", "none", "-", field,
                             ParametersChanged(data, d))
       ELSE /\ shown' = [summary |-> r.valoracion, table |-> r.proyeccion]
            /\ status_text' = "recalculated"
            /\ last' = Ended("recalculation", "none", "None", "none", "-", field,
                             ParametersChanged(data, d))

\* run_recalculation once both texts are parsed
RecalculationParsed(field, w, g) ==
    IF ~w.ok \/ ~g.ok
    THEN RecalculationRefused(field, "not_numeric", "none", "ValueError")
    ELSE IF ~data.loaded
    THEN RecalculationRefused(field, status_text, "TypeError", "none")
    ELSE \E d \in {Recalculated(data, w.v, g.v)} :
         \E r \in {RunModelOn(d, proyeccion, valoracion)} :
             RecalculateDcfModelSync(field, d, r)

\* run_recalculation, the on_change handler of both fields: the field
\* holds the new text when the handler runs.
RunRecalculationOn(field, wtext, gtext) ==
    /\ wacc_input' = wtext
    /\ g_perpetuidad_input' = gtext
    /\ UNCHANGED << dcf_model, conv, conc >>
    /\ IF ~dcf_model
       THEN RecalculationRefused(field, "load_first", "none", "none")
       ELSE \E w \in {ParseFloat(wtext)} : \E g \in {ParseFloat(gtext)} :
                RecalculationParsed(field, w, g)

RunRecalculation(field, text) ==
    RunRecalculationOn(field,
                       IF field = "wacc" THEN text ELSE wacc_input,
                       IF field = "g" THEN text ELSE g_perpetuidad_input)

----------------------------------------------------------------------------
\* Desktop front-end: overlapping calls of run_recalculation.  The handler
\* is a plain function, which the page runs on a worker thread per event;
\* main.py holds no lock and no flag, so a second call starts while the
\* first is between two of its statements.

\* The handler calls one behaviour starts.
MaxTriggers == 3

\* The texts typed while a call is running.
ConcurrentTexts ==
    [wacc |-> { << "1", "0" >>, << "3", "0" >> }, g |-> { << "5" >> }]

\* A thread at pc moves to next.
Moved(th, pc, next) ==
    /\ inflight[th].pc = pc
    /\ inflight' = [inflight EXCEPT ![th].pc = next]

\* The call on th ends.
Finished(th) == inflight' = [inflight EXCEPT ![th] = Idle]

\* run_recalculation up to the call of recalculate_dcf_model_sync: the two
\* fields are read and parsed when the call is made.
CallParsed(th, field, w, g) ==
    IF ~w.ok \/ ~g.ok
    THEN /\ status_text' = "not_numeric"
         /\ last' = Ended("recalculation", "none", "None", "ValueError", "-",
                          field, "none")
         /\ UNCHANGED conc
    ELSE /\ inflight' = [inflight EXCEPT ![th] =
                            [pc |-> "called", w |-> w.v, g |-> g.v]]
         /\ issued' = Append(issued, << PyDiv(w.v, Hundred),
                                        PyDiv(g.v, Hundred) >>)
         /\ UNCHANGED << status_text, last >>

StartRecalculation(th, field, text) ==
    /\ dcf_model
    /\ data.loaded
    /\ inflight[th].pc = "idle"
    /\ Len(issued) <= MaxTriggers
    /\ wacc_input' = IF field = "wacc" THEN text ELSE wacc_input
    /\ g_perpetuidad_input' = IF field = "g" THEN text ELSE g_perpetuidad_input
    /\ \E w \in {ParseFloat(wacc_input')} :
       \E g \in {ParseFloat(g_perpetuidad_input')} :
           CallParsed(th, field, w, g)
    /\ UNCHANGED << engine, shown, conv >>

\* dcf_model.data['base']['WACC'] = new_wacc_pct / 100
WriteWacc(th) ==
    /\ Moved(th, "called", "wacc")
    /\ data' = [data EXCEPT !.base.WACC = PyDiv(inflight[th].w, Hundred)]
    /\ UNCHANGED << dcf_model, proyeccion, valoracion, ui, last, conv, issued >>

\* dcf_model.data['base']['G_Perpetuidad'] = new_g_pct / 100
WriteGrowth(th) ==
    /\ Moved(th, "wacc", "growth")
    /\ data' = [data EXCEPT !.base.G_Perpetuidad = PyDiv(inflight[th].g, Hundred)]
    /\ UNCHANGED << dcf_model, proyeccion, valoracion, ui, last, conv, issued >>

\* run_model up to self.proyeccion = df_proj; a raise ends the call.
ProjectionStored(th) ==
    /\ inflight[th].pc = "growth"
    /\ \E p \in {CalculateProjection(data, proyeccion)} :
           IF p.exc # "none"
           THEN /\ Finished(th)
                /\ last' = Ended("recalculation", p.exc, "None", "none", "-",
                                 "-", "other")
                /\ UNCHANGED proyeccion
           ELSE /\ inflight' = [inflight EXCEPT ![th].pc = "projected"]
                /\ proyeccion' = p.proyeccion
                /\ UNCHANGED last
    /\ UNCHANGED << dcf_model, data, valoracion, ui, conv, issued >>

\* run_model from there to self.valoracion = {...}
ValuationStored(th) ==
    /\ Moved(th, "projected", "valued")
    /\ \E v \in {CalculateValuation(data, proyeccion, valoracion)} :
           valoracion' = v.valoracion
    /\ UNCHANGED << dcf_model, data, proyeccion, ui, last, conv, issued >>

\* update_results() and the status line: the getters are read here.
ResultsUpdated(th) ==
    /\ inflight[th].pc = "valued"
    /\ Finished(th)
    /\ shown' = [summary |-> valoracion, table |-> proyeccion]
    /\ status_text' = "recalculated"
    /\ last' = Ended("recalculation", "none", "None", "none", "-", "-", "other")
    /\ UNCHANGED << engine, wacc_input, g_perpetuidad_input, conv, issued >>

\* The page once WorkbookA is loaded and shown.
InitConcurrent ==
    \E c \in {LoadData(WorkbookA)} :
    \E r \in {RunModelOn(c.data, << >>, EmptyValuation)} :
        /\ dcf_model = TRUE
        /\ data = c.data
        /\ proyeccion = r.proyeccion
        /\ valoracion = r.valoracion
        /\ wacc_input = Format1f(Mul(c.data.base.WACC, Hundred))
        /\ g_perpetuidad_input = Format1f(Mul(c.data.base.G_Perpetuidad, Hundred))
        /\ status_text = "loaded"
        /\ shown = [summary |-> r.valoracion, table |-> r.proyeccion]
        /\ last = [op |-> "upload", exc |-> "none", ret |-> "None",
                   caught |-> "none", wb |-> "A", field |-> "-", had |-> FALSE,
                   changed |-> "bundle"]
        /\ cc_value = BlankCell
        /\ cc_hint = FALSE
        /\ cc_out = Pending
        /\ inflight = [th \in Triggers |-> Idle]
        /\ issued = << << c.data.base.WACC, c.data.base.G_Perpetuidad >> >>

----------------------------------------------------------------------------
\* Web front-end (unnamed/part_000)

\* The (wacc, g, isr) percentages set on the sidebar.
SidebarInputs ==
    { << FromInt(20), FromInt(3), FromInt(30) >>,
      << FromInt(10), FromInt(3), FromInt(30) >>,
      << FromInt(10), FromInt(10), FromInt(30) >>,
      << FromInt(3), FromInt(10), FromInt(0) >>,
      << FromInt(-100), FromInt(3), FromInt(30) >> }

UploadedWorkbooks ==
    {WorkbookA, WorkbookBlank, WorkbookNarrowGrid, WorkbookNoBase}

\* The sidebar values applied without the tax rate.
SensitivityWithoutTax(d, wacc_pct, g_pct, isr_pct) ==
    [d EXCEPT !.base.WACC = PyDiv(wacc_pct, Hundred),
              !.base.G_Perpetuidad = PyDiv(g_pct, Hundred)]

\* 1. Aplicar Sensibilidad
Sensitivity(d, wacc_pct, g_pct, isr_pct) ==
    [d EXCEPT !.base.WACC = PyDiv(wacc_pct, Hundred),
              !.base.G_Perpetuidad = PyDiv(g_pct, Hundred),
              !.base.Tasa_ISR = PyDiv(isr_pct, Hundred)]

\* run_dcf_model returned None or (None, None): the page shows nothing and
\* no instance is left.
ModelDropped(wb, failed) ==
    /\ last' = Ended("run_dcf_model", "none", "None", failed, wb.name, "-",
                     "bundle")
    /\ dcf_model' = FALSE
    /\ data' = None
    /\ proyeccion' = << >>
    /\ valoracion' = EmptyValuation
    /\ shown' = NoResults

\* run_dcf_model returned the instance: the page shows its results when its
\* valoracion is not empty.
ModelReturned(wb, d, r) ==
    /\ last' = Ended("run_dcf_model", "none", "model", "none", wb.name, "-",
                     ParametersChanged(data, d))
    /\ dcf_model' = TRUE
    /\ data' = d
    /\ proyeccion' = r.proyeccion
    /\ valoracion' = r.valoracion
    /\ shown' = IF r.valoracion.filled
                THEN [summary |-> r.valoracion, table |-> r.proyeccion]
                ELSE NoResults

\* 2. Ejecutar el cálculo, on the data with the sidebar values applied
RunDcfModelLoaded(wb, d) ==
    \E r \in {RunModelOn(d, << >>, EmptyValuation)} :
        IF r.exc # "none" THEN ModelDropped(wb, r.exc)
        ELSE ModelReturned(wb, d, r)

\* run_dcf_model(uploaded_file, wacc_pct, g_pct, isr_pct) and the page that
\* shows its result: every exception is caught.
RunDcfModel(wb, in) ==
    /\ UNCHANGED << wacc_input, g_perpetuidad_input, status_text, conv, conc >>
    /\ \E c \in {LoadData([wb EXCEPT !.kind = "buffer"])} :
           IF c.exc # "none" THEN ModelDropped(wb, c.exc)
           ELSE IF ~c.data.loaded THEN ModelDropped(wb, "none")
           ELSE \E d \in {Sensitivity(c.data, in[1], in[2], in[3])} :
                    RunDcfModelLoaded(wb, d)

----------------------------------------------------------------------------
\* clean_and_convert on its own

Alphabet == {"$", ",", "%", " ", "-", ".", "0", "3", "x"}

RECURSIVE Texts(_)
Texts(n) ==
    IF n = 0 THEN {<< >>}
    ELSE LET shorter == Texts(n - 1)
         IN  shorter \cup {Append(s, c) : s \in shorter, c \in Alphabet}

NumberCells ==
    {NumCell(Fin(m, e)) : m \in {-30, -1, 0, 1, 3, 30, 101}, e \in {-2, -1, 0}}

CellInputs == {BlankCell} \cup NumberCells \cup {StrCell(s) : s \in Texts(MaxStrLen)}

InitConv ==
    /\ InitEngine
    /\ cc_value \in CellInputs
    /\ cc_hint \in BOOLEAN
    /\ cc_out = Pending

CleanAndConvert ==
    /\ cc_out = Pending
    /\ cc_out' = clean_and_convert(cc_value, cc_hint)
    /\ UNCHANGED << engine, ui, last, cc_value, cc_hint, conc >>

----------------------------------------------------------------------------
\* Specifications

\* A client of the class, and the web front-end, which builds its own
\* instance on every call.
Next ==
    \/ \E wb \in Workbooks : Construct(wb)
    \/ RunModel
    \/ \E wb \in UploadedWorkbooks, in \in SidebarInputs : RunDcfModel(wb, in)

Spec == Init /\ [][Next]_vars

\* The desktop front-end, one handler call at a time: each call runs to its
\* end before the next starts.
NextDesktop ==
    \/ \E wb \in PickedWorkbooks : ExecuteModelAfterUpload(wb)
    \/ \E field \in {"wacc", "g"}, text \in SensTexts :
          RunRecalculation(field, text)

SpecDesktop == Init /\ [][NextDesktop]_vars

NextConv == CleanAndConvert

SpecConv == InitConv /\ [][NextConv]_vars

\* The desktop front-end with its handler running on two threads at once.
NextConcurrent ==
    \/ \E th \in Triggers, field \in {"wacc", "g"} :
          \E text \in ConcurrentTexts[field] : StartRecalculation(th, field, text)
    \/ \E th \in Triggers : WriteWacc(th)
    \/ \E th \in Triggers : WriteGrowth(th)
    \/ \E th \in Triggers : ProjectionStored(th)
    \/ \E th \in Triggers : ValuationStored(th)
    \/ \E th \in Triggers : ResultsUpdated(th)

SpecConcurrent == InitConcurrent /\ [][NextConcurrent]_vars


----------------------------------------------------------------------------
\* Properties

\* C1: whenever a summary is stored its WACC exceeds its growth rate, i.e.
\* the valuation stores no terminal or enterprise value for wacc <= growth.
C1NoSummaryUnlessWaccAboveGrowth ==
    valoracion.filled => Gt(valoracion.WACC, valoracion.G_Perpetuidad)

\* The discounted FCF of the stored projection, summed over the years.
SumOfDiscounted ==
    Add(Add(Add(Add(Add(Zero, proyeccion[1].Valor_Presente_FCF),
                    proyeccion[2].Valor_Presente_FCF),
                proyeccion[3].Valor_Presente_FCF),
            proyeccion[4].Valor_Presente_FCF),
        proyeccion[5].Valor_Presente_FCF)

C3RunWithoutDataIsNoOp ==
    ~data.loaded =>
        /\ proyeccion = << >>
        /\ valoracion = EmptyValuation
        /\ last.op = "run_model" => (last.exc = "none" /\ last.ret = "False")

C3Witness ==
    /\ dcf_model /\ ~data.loaded
    /\ last.op = "run_model" /\ last.ret = "False" /\ ~last.had

\* A sensitivity re-run that changed WACC and nothing else, from a state
\* whose summary was that of the rates then in force.
C4OnlyWaccChanged ==
    /\ last'.op = "recalculation" /\ last'.exc = "none"
    /\ data.loaded /\ data'.loaded
    /\ ParametersChanged(data, data') = "WACC"
    /\ valoracion.filled /\ valoracion'.filled
    /\ valoracion.WACC = data.base.WACC
    /\ valoracion.G_Perpetuidad = data.base.G_Perpetuidad

UndiscountedColumns ==
    {"Ingresos_B1", "Ingresos_B2", "Ingresos_G", "Ingresos_Totales", "EBIT",
     "Depreciacion", "NOPAT", "Capital_de_Trabajo", "Delta_CTN", "CapEx_Total",
     "FCF"}

C4UndiscountedUnchanged ==
    \A t \in 1..years : \A col \in UndiscountedColumns :
        proyeccion'[t][col] = proyeccion[t][col]

C4Rediscounted ==
    /\ valoracion'.WACC = data'.base.WACC
    /\ \A t \in 1..years :
          /\ proyeccion'[t].VP_Factor =
                 NpDiv(One, Pow(Add(One, data'.base.WACC), t))
          /\ proyeccion'[t].Valor_Presente_FCF =
                 Mul(proyeccion'[t].FCF, proyeccion'[t].VP_Factor)
    /\ valoracion'.VP_Valor_Terminal =
           Mul(valoracion'.Valor_Terminal, proyeccion'[years].VP_Factor)

C5RunModelIdempotent ==
    [][(last'.op = "run_model" /\ valoracion.filled) =>
          /\ last'.exc = "none" /\ last'.ret = "True"
          /\ proyeccion' = proyeccion
          /\ valoracion' = valoracion
          /\ data' = data]_vars

C5Witness ==
    /\ last.op = "run_model" /\ last.had /\ last.ret = "True"
    /\ valoracion.filled
    /\ proyeccion[years].FCF.m # 0

\* C6: in every stored projection the first year's Delta CTN is that year's
\* Capital de Trabajo, and a later year's is its level minus the level
\* stored for the year before.
C6WorkingCapitalRecursion ==
    proyeccion # << >> =>
        /\ proyeccion[1].Delta_CTN = proyeccion[1].Capital_de_Trabajo
        /\ \A t \in 2..years :
              proyeccion[t].Delta_CTN =
                  Sub(proyeccion[t].Capital_de_Trabajo,
                      proyeccion[t - 1].Capital_de_Trabajo)

C6Witness ==
    /\ proyeccion # << >>
    /\ proyeccion[1].Capital_de_Trabajo.m # 0
    /\ proyeccion[2].Delta_CTN # proyeccion[2].Capital_de_Trabajo
    /\ proyeccion[2].Delta_CTN.m # 0

\* The workbooks with no file, a sheet missing or a label missing.
MissingSchema == {"NoFile", "NoBase", "NoGrid", "NoImpact", "NoLabel"}

\* C7: constructing the model on a missing file, a missing sheet or a
\* missing label completes without raising and leaves data None with an
\* empty projection and an empty summary.
C7LoadNeverCrashesOnMissingSchema ==
    (last.op = "construct" /\ last.wb \in MissingSchema) =>
        /\ last.exc = "none"
        /\ dcf_model /\ ~data.loaded
        /\ proyeccion = << >> /\ valoracion = EmptyValuation

C7Witness ==
    /\ last.op = "construct" /\ last.wb = "NoLabel" /\ last.exc = "none"
    /\ dcf_model /\ ~data.loaded

\* The workbooks whose positional sheets are too short or too narrow.
LayoutMismatch == {"ShortGrid", "NarrowGrid", "ShortImpact", "NarrowImpact"}

\* C8: a layout mismatch is a load failure, and no run_model ends in an
\* IndexError.
C8LayoutMismatchIsLoadError ==
    /\ (last.op = "construct" /\ last.wb \in LayoutMismatch) => ~data.loaded
    /\ last.op = "run_model" => last.exc # "IndexError"

\* C9: no operation ends in a ZeroDivisionError, and nothing is stored for
\* a WACC of -1.
C9MinusOneRejected ==
    /\ last.exc # "ZeroDivisionError"
    /\ valoracion.filled => valoracion.WACC # Neg(One)

\* The number the cell parses to, if it does.
C10Parsed ==
    IF cc_value.t = "str" THEN ParseFloat(CleanText(cc_value.s).str)
    ELSE [ok |-> cc_value.t = "num", v |-> cc_value.v]

C10AsPercentage ==
    cc_hint \/ (cc_value.t = "str" /\ CleanText(cc_value.s).pct)

Magnitude(a) == IF IsFin(a) THEN [a EXCEPT !.m = Abs(a.m)] ELSE a

\* C10: a parsed number v read as a percentage gives v/100 when the
\* magnitude of v exceeds 1 and v otherwise; one not read as a percentage
\* gives v.
C10PercentageRule ==
    (cc_out # Pending /\ C10Parsed.ok) =>
        cc_out = IF C10AsPercentage /\ Gt(Magnitude(C10Parsed.v), One)
                 THEN NpDiv(C10Parsed.v, Hundred)
                 ELSE C10Parsed.v

\* The cleaned text of a cell with '$' and ',' removed, blanks stripped and
\* one trailing '%' removed.
C11Cleaned ==
    LET value_str == Strip(Remove(Remove(cc_value.s, "$"), ","))
    IN  IF EndsWith(value_str, "%") THEN SubSeq(value_str, 1, Len(value_str) - 1)
        ELSE value_str

C11Unparseable ==
    \/ cc_value.t = "nan"
    \/ cc_value.t = "str" /\ ~ParseFloat(C11Cleaned).ok

C11Returned == cc_out # Pending /\ cc_out.k \in {"fin", "inf", "nan"}

\* C11: a blank cell, and a text that is not a number once '$', ',' and a
\* trailing '%' are removed, give 0.0 under either hint, and every call
\* returns a number.
C11ZeroFill ==
    /\ cc_out # Pending => C11Returned
    /\ (cc_out # Pending /\ C11Unparseable) => cc_out = Zero

\* The part of C11 that the code keeps: every call returns, and a blank
\* cell or a text the code's own cleaning cannot parse gives 0.0.
C11TotalOnOwnCleaning ==
    /\ cc_out # Pending => C11Returned
    /\ (cc_out # Pending /\ ~C10Parsed.ok) => cc_out = Zero

\* The scenario: in 2026 the three streams do not grow and have no cost of
\* sales, the projects add nothing in any year, and the base depreciation
\* and CapEx percentages are zero.
C12Scenario ==
    /\ data.loaded
    /\ proyeccion # << >>
    /\ \A r \in {2, 3, 6, 7, 10, 11} :
          clean_and_convert(Cell(Frame(data), r, 1), TRUE) = Zero
    /\ \A k \in DOMAIN data.proyectos : \A t \in 1..Len(data.proyectos[k]) :
          data.proyectos[k][t] = Zero
    /\ data.base.Dep_Pct_Base = Zero
    /\ data.base.CapEx_Pct_Base = Zero

\* Nothing is owed by customers and 2026 has no variable operating expenses.
C12NoReceivablesNoVariable ==
    /\ data.base.Dias_CxC = Zero
    /\ clean_and_convert(Cell(Frame(data), 13, 1), TRUE) = Zero

C12BaseLevels ==
    Add(Add(clean_and_convert(Cell(Frame(data), 1, base_year_col), FALSE),
            clean_and_convert(Cell(Frame(data), 5, base_year_col), FALSE)),
        clean_and_convert(Cell(Frame(data), 9, base_year_col), FALSE))

C12YearOne ==
    /\ proyeccion[1].Ingresos_Totales = C12BaseLevels
    /\ proyeccion[1].EBIT =
          Sub(C12BaseLevels,
              Mul(data.base.Gastos_Fijos_Operativos_2025, Fin(103, -2)))
    /\ proyeccion[1].Depreciacion = Zero
    /\ proyeccion[1].Delta_CTN = Zero
    /\ proyeccion[1].CapEx_Total = Zero
    /\ proyeccion[1].FCF = proyeccion[1].NOPAT

\* C12 as stated: in the scenario, 2026 revenue is the sum of the three
\* base-year levels, EBIT is that revenue less 1.03 times the fixed expense
\* base, and FCF is NOPAT, with depreciation, working-capital delta and
\* CapEx all zero.
C12ScenarioAsStated == C12Scenario => C12YearOne

\* C12, with the two premises the statement leaves out: the same holds when
\* also the receivable days and the 2026 variable expense ratio are zero.
C12FlatScenario == (C12Scenario /\ C12NoReceivablesNoVariable) => C12YearOne

C12Witness ==
    /\ C12Scenario
    /\ C12NoReceivablesNoVariable
    /\ proyeccion[1].Ingresos_Totales = FromInt(1000)
    /\ proyeccion[1].EBIT = FromInt(897)
    /\ proyeccion[1].FCF = FromInt(628)

\* The last operation was a run that stored a summary.
C13RunSucceeded ==
    \/ last.op = "run_model" /\ last.ret = "True"
    \/ last.op = "run_dcf_model" /\ last.ret = "model" /\ valoracion.filled

\* The summary carries the rates of the parameter bundle, and the stored
\* rows and the terminal value were computed with them.
C13RatesUsed ==
    C13RunSucceeded =>
        /\ valoracion.WACC = data.base.WACC
        /\ valoracion.G_Perpetuidad = data.base.G_Perpetuidad
        /\ valoracion.Tasa_ISR = data.base.Tasa_ISR
        /\ \A t \in 1..years :
              /\ proyeccion[t].NOPAT =
                    Mul(proyeccion[t].EBIT, Sub(One, valoracion.Tasa_ISR))
              /\ proyeccion[t].VP_Factor =
                    PyDiv(One, Pow(Add(One, valoracion.WACC), t))
        /\ valoracion.Valor_Terminal =
              NpDiv(Mul(proyeccion[years].FCF, Add(One, valoracion.G_Perpetuidad)),
                    Sub(valoracion.WACC, valoracion.G_Perpetuidad))

\* A run of the web front-end with the sidebar at in stores a summary that
\* carries in / 100.
C13SidebarCarried ==
    \A wb \in UploadedWorkbooks, in \in SidebarInputs :
        (/\ last'.op = "run_dcf_model"
         /\ last'.wb = wb.name
         /\ valoracion'.filled
         /\ RunDcfModel(wb, in))
        => /\ valoracion'.WACC = PyDiv(in[1], Hundred)
           /\ valoracion'.G_Perpetuidad = PyDiv(in[2], Hundred)
           /\ valoracion'.Tasa_ISR = PyDiv(in[3], Hundred)

\* C13: after every successful run the summary's WACC, G_Perpetuidad and
\* Tasa_ISR are the rates of the active parameter bundle and the rates the
\* run used (tax in NOPAT, WACC in every discount factor, WACC and growth in
\* the terminal value); after a sensitivity change to (wacc, growth, tax)
\* percent they are wacc/100, growth/100 and tax/100.
C13SummaryCarriesRatesUsed == []C13RatesUsed /\ [][C13SidebarCarried]_vars

C13Witness ==
    /\ last.op = "run_dcf_model"
    /\ valoracion.filled
    /\ valoracion.WACC = Fin(3, -2)
    /\ valoracion.G_Perpetuidad = Fin(1, -1)
    /\ valoracion.Tasa_ISR = Zero
    /\ proyeccion[1].EBIT.m # 0
    /\ proyeccion[1].NOPAT = proyeccion[1].EBIT

\* The sum of the three streams of a stored row, without project revenue.
C14BaseRevenue(row) == Add(Add(row.Ingresos_B1, row.Ingresos_B2), row.Ingresos_G)

\* C14: in every stored year FCF = NOPAT + depreciation - working-capital
\* delta - CapEx, NOPAT = EBIT x (1 - tax rate), depreciation = base revenue
\* x base depreciation percent + the year's project depreciation, and CapEx
\* = base revenue x base CapEx percent + the year's project CapEx.
C14FreeCashFlow ==
    proyeccion # << >> =>
        \A t \in 1..years :
            /\ proyeccion[t].FCF =
                  Sub(Sub(Add(proyeccion[t].NOPAT, proyeccion[t].Depreciacion),
                          proyeccion[t].Delta_CTN),
                      proyeccion[t].CapEx_Total)
            /\ proyeccion[t].NOPAT =
                  Mul(proyeccion[t].EBIT, Sub(One, data.base.Tasa_ISR))
            /\ proyeccion[t].Depreciacion =
                  Add(Mul(C14BaseRevenue(proyeccion[t]), data.base.Dep_Pct_Base),
                      data.proyectos.depreciacion_adicional[t])
            /\ proyeccion[t].CapEx_Total =
                  Add(Mul(C14BaseRevenue(proyeccion[t]), data.base.CapEx_Pct_Base),
                      data.proyectos.capex_inversion[t])

C14Witness ==
    /\ proyeccion # << >>
    /\ data.base.Dep_Pct_Base.m # 0
    /\ data.base.CapEx_Pct_Base.m # 0
    /\ data.proyectos.depreciacion_adicional[2].m # 0
    /\ data.proyectos.capex_inversion[2].m # 0
    /\ proyeccion[2].Delta_CTN.m # 0
    /\ proyeccion[2].Ingresos_Totales # C14BaseRevenue(proyeccion[2])
    /\ proyeccion[2].FCF # proyeccion[2].NOPAT

\* The three streams: the column of the stored row and the grid row of the
\* base-year level; the growth rates are one grid row below.
C15Streams == {<<"Ingresos_B1", 1>>, <<"Ingresos_B2", 5>>, <<"Ingresos_G", 9>>}

C15Growth(row, t) == clean_and_convert(Cell(Frame(data), row + 1, t), TRUE)

\* C15: the stored years increase, and each stream's level in year t is the
\* level stored for year t-1 of the same stream (the level in the grid's
\* first column when t = 1) times 1 + the stream's growth rate of year t.
C15StreamRecursion ==
    proyeccion # << >> =>
        /\ \A t \in 1..years : proyeccion[t].year = start_year + t - 1
        /\ \A st \in C15Streams :
              /\ proyeccion[1][st[1]] =
                    Mul(clean_and_convert(Cell(Frame(data), st[2], base_year_col), FALSE),
                        Add(One, C15Growth(st[2], 1)))
              /\ \A t \in 2..years :
                    proyeccion[t][st[1]] =
                        Mul(proyeccion[t - 1][st[1]], Add(One, C15Growth(st[2], t)))

C15Witness ==
    /\ proyeccion # << >>
    /\ C15Growth(1, 1).m # 0
    /\ C15Growth(1, 2) # C15Growth(5, 2)
    /\ proyeccion[2].Ingresos_B1 # proyeccion[1].Ingresos_B1
    /\ proyeccion[2].Ingresos_B1 #
          Mul(clean_and_convert(Cell(Frame(data), 1, base_year_col), FALSE),
              Add(One, C15Growth(1, 2)))
    /\ proyeccion[5].Ingresos_G # proyeccion[5].Ingresos_B2

C16OneInFlight == Cardinality({th \in Triggers : inflight[th].pc # "idle"}) <= 1

\* The stored summary carries the (WACC, g) pair of the load or of one call.
C16FromOneTrigger ==
    valoracion.filled =>
        \E i \in 1..Len(issued) :
            issued[i] = << valoracion.WACC, valoracion.G_Perpetuidad >>

\* C16: at most one recomputation is in flight, and the stored projection and
\* valuation come from one trigger's WACC and growth rate, never from the
\* WACC of one trigger and the growth rate of the other.
C16Serialized == C16OneInFlight /\ C16FromOneTrigger

\* C17: a sensitivity change on a model object whose data is None is a no-op
\* that reports not-ready: it raises nothing, the status line says that a
\* file must be loaded first, and nothing stored or displayed changes.
C17NoOpAfterFailedLoad ==
    (last.op = "recalculation" /\ dcf_model /\ ~data.loaded) =>
        /\ last.exc = "none"
        /\ status_text = "load_first"
        /\ proyeccion = << >>
        /\ valoracion = EmptyValuation

\* The same without the status line: the handler raises nothing.
C17RaisesNothingAfterFailedLoad ==
    (last.op = "recalculation" /\ dcf_model /\ ~data.loaded) => last.exc = "none"

\* The summary was computed from the rows: its WACC is the one of their
\* discount factors, its sum is over them, and its terminal value is that of
\* their last year.
C18ComputedFrom(summary, rows) ==
    /\ rows # << >>
    /\ \A t \in 1..years : rows[t].VP_Factor = DiscountFactor(summary.WACC, t)
    /\ summary.VE_FCF_Proyectados = SumPV(rows, years)
    /\ summary.Valor_Terminal =
          ValorTerminal(rows[years].FCF, summary.WACC, summary.G_Perpetuidad)
    /\ summary.VP_Valor_Terminal =
          Mul(summary.Valor_Terminal, rows[years].VP_Factor)

\* C18: no partially-updated result is visible: the summary and the rows
\* that a reader of get_valuation_summary and get_detailed_proyection
\* obtained are a summary computed from exactly those rows.
C18NoPartialResultVisible ==
    shown.summary.filled => C18ComputedFrom(shown.summary, shown.table)

\* Between two operations the stored summary was computed from the stored
\* projection.
C18StoredSummaryOfStoredProjection ==
    valoracion.filled => C18ComputedFrom(valoracion, proyeccion)

\* The run of the last operation failed inside the projection.
C19FailedInProjection == last.exc \in {"IndexError", "ZeroDivisionError"}

\* A step whose run fails inside the projection: a recalculation runs on the
\* instance that exists and leaves its projection and summary as they were;
\* an upload runs on a new instance, whose projection and summary stay empty.
C19FailedRunStep ==
    C19FailedInProjection' =>
        IF last'.op = "recalculation"
        THEN proyeccion' = proyeccion /\ valoracion' = valoracion
        ELSE proyeccion' = << >> /\ valoracion' = EmptyValuation

\* C19: a run that fails part-way through the projection leaves the stored
\* projection and the stored summary as they were before the run.
C19FailedRunKeepsResults == [][C19FailedRunStep]_vars

C19Witness ==
    /\ last.op = "recalculation"
    /\ last.exc = "ZeroDivisionError"
    /\ last.had
    /\ valoracion.filled
    /\ proyeccion # << >>
    /\ data.base.WACC = Neg(One)
    /\ valoracion.WACC # data.base.WACC
    /\ proyeccion[1].VP_Factor = DiscountFactor(valoracion.WACC, 1)

\* An upload whose run fails on a project list that is too short.
C19WitnessIndexError ==
    /\ last.op = "upload"
    /\ last.exc = "IndexError"
    /\ proyeccion = << >>

\* The columns of the stored projection.
C20Columns ==
    {"Ingresos_B1", "Ingresos_B2", "Ingresos_G", "Ingresos_Totales", "EBIT",
     "Depreciacion", "NOPAT", "Capital_de_Trabajo", "Delta_CTN", "CapEx_Total",
     "FCF", "VP_Factor", "Valor_Presente_FCF"}

\* The stored projection is empty or the five rows 2026..2030 in order, each
\* with a number in every column, and a summary is stored only with rows.
C20Shape ==
    /\ \/ proyeccion = << >>
       \/ /\ Len(proyeccion) = years
          /\ \A t \in 1..years :
                /\ proyeccion[t].year = start_year + t - 1
                /\ DOMAIN proyeccion[t] = C20Columns \cup {"year"}
                /\ \A c \in C20Columns : IsFin(proyeccion[t][c])
    /\ valoracion.filled => proyeccion # << >>

\* A run_model step returns True with the projection and the summary of this
\* call stored, and anything else with both left as they were.
C20RunModelStep ==
    last'.op = "run_model" =>
        IF last'.ret = "True"
        THEN /\ proyeccion' = CalculateProjection(data, proyeccion).proyeccion
             /\ proyeccion' # << >>
             /\ valoracion'.filled
             /\ C18ComputedFrom(valoracion', proyeccion')
        ELSE proyeccion' = proyeccion /\ valoracion' = valoracion

\* C20: in every reachable state the stored projection is empty or has the
\* five rows 2026..2030 in increasing order with every column populated, a
\* summary is stored only if a projection is, and run_model returns True
\* exactly when it replaced both in that call.
C20ShapeAndReturn == []C20Shape /\ [][C20RunModelStep]_vars

C20Witness ==
    /\ last.op = "run_model"
    /\ last.ret = "True"
    /\ ~last.had
    /\ Len(proyeccion) = years
    /\ proyeccion[years].year = 2030
    /\ valoracion.filled

=============================================================================
